---- MODULE Spec2Model ----
(***************************************************************************)
(* The price-adjustment pipeline of the PriceLabs tool: for each selected  *)
(* listing, fetch its overrides, keep the adjustable ones, transform the   *)
(* prices, submit the adjusted batch, record an outcome.  The repository   *)
(* holds the pipeline five times over; each copy is modelled from its own  *)
(* code:                                                                   *)
(*   "dashboard"      src/streamlit_app.py                 batch_update    *)
(*   "pkg_dashboard"  src/pricelabs_tool/streamlit_app.py  batch_update    *)
(*   "web"            src/pricelabs_tool/web_app.py        update_prices   *)
(*   "cli_update"     src/pricelabs_tool/__main__.py       update          *)
(*   "cli_adjust"     src/pricelabs_tool/__main__.py       adjust (all)    *)
(*   "cli_adjust_one" src/pricelabs_tool/__main__.py       adjust --listing-id *)
(*                                                                         *)
(* Numbers that are Python floats in the code are carried in hundredths    *)
(* (30.0 is 3000, 31.5 is 3150), which is exact for the whole-unit prices  *)
(* and the whole-percent adjustment of the model.  Dates are days counted  *)
(* from today (0 is today).  The selected listings are 1..total, in input  *)
(* order; listing k has id k.                                              *)
(***************************************************************************)
EXTENDS Integers, Sequences, FiniteSets, TLC

VARIABLES
    frontend,         \* which copy of the pipeline runs
    increase,         \* direction of the run
    dry_run,          \* preview only
    start,            \* adjust: [given, date, days] (--start-date / --days)
    batch_size,       \* batch_update's batch_size
    total,            \* number of selected listings
    pc,               \* position: "start", "listings", "loop", "sleep", "done", "aborted", ...
    i,                \* batch_update: offset of the current batch (0-based)
    j,                \* offset of the next listing inside the batch (0-based)
    cur,              \* id of the listing handled last (0 before the first)
    retrieved,        \* overrides retrieved for listing cur
    submitted,        \* batch submitted for listing cur (<<>> if no write)
    calls,            \* outbound calls and pauses of the run, in order
    results,          \* apply-mode outcomes, in order
    dry_run_summary,  \* dry-run outcomes, in order
    price,            \* price of one fixed-type override before any run (whole units)
    steps,            \* successive runs over that override: direction, result, price sent
    listings,         \* what get_listings returns: the listings of the account
    listing_ids,      \* ids supplied with the request ({} if none)
    pms,              \* adjust's --pms ("" if not given)
    selected,         \* ids of the listings the run loops over, in order
    aggregate,        \* what the run reports as a whole
    price_changes,    \* dry run: the 'price_changes' computed for listing cur
    request           \* the API key and the options the caller gave

\* the state of the price history, which the pipeline leaves alone
pricevars == <<price, steps>>

\* the state of the Listing Selector
selvars == <<listings, listing_ids, pms, selected, aggregate>>

vars == <<frontend, increase, dry_run, start, batch_size, total, pc, i, j, cur,
          retrieved, submitted, calls, results, dry_run_summary, pricevars, selvars,
          price_changes, request>>

-----------------------------------------------------------------------------
(* Bounds *)

MaxListings == 3
MaxBatch == 2
MaxOverrides == 2
MaxPrice == 450
MaxRuns == 2
MaxFetched == 2
MaxPreview == 6

(* Program constants *)

ADJUSTMENT_PERCENTAGE == 5
PREVIEW_LIMIT == 5

-----------------------------------------------------------------------------
(* Data the pricing service can return *)

PriceTypes == {"fixed", "percent"}

\* price strings: one that float() rejects, one non-positive, two positive
PriceStrings == {"abc", "0", "30", "100"}

\* today, the last day of the write window, the first day after it
DateOffsets == {0, 365, 366}

Overrides == [date : DateOffsets, price : PriceStrings, price_type : PriceTypes]

RECURSIVE SeqsUpTo(_, _)
SeqsUpTo(S, k) ==
    IF k = 0 THEN {<<>>}
    ELSE LET shorter == SeqsUpTo(S, k - 1)
         IN  shorter \cup {Append(s, x) : s \in shorter, x \in S}

-----------------------------------------------------------------------------
(* Python numbers *)

\* float(s) returns (it raises ValueError otherwise)
Parsable(s) == s \in {"0", "30", "100"}

\* float(s), in hundredths
PyFloat(s) ==
    CASE s = "0" -> 0
      [] s = "30" -> 30 * 100
      [] s = "100" -> 100 * 100
      [] OTHER -> 0

\* int(x) of a non-negative float x in hundredths: truncation
PyInt(x) == x \div 100

\* round(x) of a non-negative float x in hundredths: nearest integer, ties to even
PyRound(x) ==
    LET q == x \div 100
        r == x % 100
    IN  IF r > 50 \/ (r = 50 /\ q % 2 = 1) THEN q + 1 ELSE q

-----------------------------------------------------------------------------
(* Price Transform *)

\* src/streamlit_app.py: price * (1 +/- ADJUSTMENT_PERCENTAGE / 100), not rounded
StandaloneCalculateAdjustedPrice(p, inc) ==
    IF inc
    THEN (p * (100 + ADJUSTMENT_PERCENTAGE)) \div 100
    ELSE (p * (100 - ADJUSTMENT_PERCENTAGE)) \div 100

\* a transform that truncates where price_calculator.py rounds
calculate_adjusted_price_truncating(p, inc) ==
    LET adjustment == 100 + ADJUSTMENT_PERCENTAGE * (IF inc THEN 1 ELSE -1)
    IN  PyInt((p * adjustment) \div 100) * 100

\* price_calculator.py: round(price * adjustment), an integer (here in hundredths)
calculate_adjusted_price(p, inc) ==
    LET adjustment == 100 + ADJUSTMENT_PERCENTAGE * (IF inc THEN 1 ELSE -1)
    IN  PyRound((p * adjustment) \div 100) * 100

\* the calculate_adjusted_price each front-end binds
Calc(fe, p, inc) ==
    IF fe = "dashboard"
    THEN StandaloneCalculateAdjustedPrice(p, inc)
    ELSE calculate_adjusted_price(p, inc)

-----------------------------------------------------------------------------
(* Override Filter and submission records *)

\* a filter that forgets the price type
AnyPriceType(o) == TRUE

\* override.get('price_type') == 'fixed'
IsFixed(o) == o.price_type = "fixed"

\* old_price > 0
IsPositive(o) == PyFloat(o.price) > 0

\* float(override.get('price', 0)) raises for some fixed-type override
FloatRaises(ovs) ==
    \E k \in 1..Len(ovs) : IsFixed(ovs[k]) /\ ~Parsable(ovs[k].price)

\* a record built from the old price, the transform left out
AdjustedRecordUntransformed(fe, o, inc) ==
    [date |-> o.date, price |-> PyInt(PyFloat(o.price)), price_type |-> "fixed"]

\* the record appended to adjusted_overrides; price is str(int(new_price)),
\* carried as the integer that string denotes
AdjustedRecord(fe, o, inc) ==
    [date |-> o.date,
     price |-> PyInt(Calc(fe, PyFloat(o.price), inc)),
     price_type |-> "fixed"]

\* the loop that builds adjusted_overrides, when no float() raises
AdjustedOverrides(fe, ovs, inc) ==
    LET Keep(o) == IsFixed(o) /\ Parsable(o.price) /\ IsPositive(o)
        kept == SelectSeq(ovs, Keep)
    IN  [k \in 1..Len(kept) |-> AdjustedRecord(fe, kept[k], inc)]

-----------------------------------------------------------------------------
(* Effects of handling one listing *)

\* entries of calls: a get_listing_overrides call, an update_listing_overrides
\* call (ok = FALSE: the call raised), a time.sleep between batches
FetchCall(id, ok) == [op |-> "fetch", id |-> id, ok |-> ok]
SubmitCall(id, ok) == [op |-> "submit", id |-> id, ok |-> ok]
SleepCall == [op |-> "sleep", id |-> 0, ok |-> TRUE]

Success(id) == [id |-> id, status |-> "success"]
Error(id) == [id |-> id, status |-> "error"]

Summary(id, changes) == [id |-> id, changes |-> changes, error |-> FALSE]
SummaryError(id) == [id |-> id, changes |-> 0, error |-> TRUE]

\* what handling one listing adds to the run: calls made, batch sent,
\* entries appended to results and dry_run_summary, and whether an exception
\* leaves the per-listing code
Effect(c, b, r, s, raised) ==
    [calls |-> c, batch |-> b, results |-> r, summary |-> s, raised |-> raised]

\* outcomes inserted at the front of the list
PrependOutcomes(rs, new) == new \o rs

\* results.append / dry_run_summary.append: outcomes are added at the end
AppendOutcomes(rs, new) == rs \o new

\* batch_update, update_prices: `if adjusted_overrides:` in the else of `if dry_run:`
WriteIssued(adjusted) == adjusted # <<>>

\* a write guard that forgets the dry-run flag
UpdateWriteIssuedIgnoringDryRun(adjusted, dry) == adjusted # <<>>

\* update: `if adjusted_overrides and not dry_run:`
UpdateWriteIssued(adjusted, dry) == adjusted # <<>> /\ ~dry

\* process_listing_adjustments: `if not adjusted_overrides: return` precedes the write
AdjustWriteIssued(adjusted) == adjusted # <<>>

\* one update_listing_overrides call for each adjusted override
WriteCallsPerOverride(id, adjusted, ok) == [m \in 1..Len(adjusted) |-> SubmitCall(id, ok)]

\* the one update_listing_overrides call that sends the whole adjusted batch
WriteCalls(id, adjusted, ok) == <<SubmitCall(id, ok)>>

\* batch_update (both dashboards): the try/except body run for one listing.
\* resp is what get_listing_overrides does (ok = FALSE: it raises), submit_ok
\* what update_listing_overrides does if it is called.
BatchUpdateBody(fe, id, resp, submit_ok, inc, dry) ==
    LET Caught(c, b) ==      \* except Exception as e
            IF dry
            THEN Effect(c, b, <<>>, <<SummaryError(id)>>, FALSE)
            ELSE Effect(c, b, <<Error(id)>>, <<>>, FALSE)
        adjusted == AdjustedOverrides(fe, resp.overrides, inc)
    IN  IF ~resp.ok THEN Caught(<<FetchCall(id, resp.ok)>>, <<>>)
        ELSE IF FloatRaises(resp.overrides) THEN Caught(<<FetchCall(id, resp.ok)>>, <<>>)
        ELSE IF dry
        THEN Effect(<<FetchCall(id, resp.ok)>>, <<>>, <<>>, <<Summary(id, Len(adjusted))>>, FALSE)
        ELSE IF WriteIssued(adjusted)
        THEN IF submit_ok
             THEN Effect(<<FetchCall(id, resp.ok)>> \o WriteCalls(id, adjusted, submit_ok), adjusted,
                         <<Success(id)>>, <<>>, FALSE)
             ELSE Caught(<<FetchCall(id, resp.ok)>> \o WriteCalls(id, adjusted, submit_ok), adjusted)
        ELSE Effect(<<FetchCall(id, resp.ok)>>, <<>>, <<>>, <<>>, FALSE)

\* update_prices (web): the try/except body run for one listing
UpdatePricesBody(id, resp, submit_ok, inc, dry) ==
    LET Caught(c, b) ==
            IF dry
            THEN Effect(c, b, <<>>, <<SummaryError(id)>>, FALSE)
            ELSE Effect(c, b, <<Error(id)>>, <<>>, FALSE)
        adjusted == AdjustedOverrides("web", resp.overrides, inc)
    IN  IF ~resp.ok THEN Caught(<<FetchCall(id, resp.ok)>>, <<>>)
        ELSE IF FloatRaises(resp.overrides) THEN Caught(<<FetchCall(id, resp.ok)>>, <<>>)
        ELSE IF dry
        THEN Effect(<<FetchCall(id, resp.ok)>>, <<>>, <<>>, <<Summary(id, Len(adjusted))>>, FALSE)
        ELSE IF WriteIssued(adjusted)
        THEN IF submit_ok
             THEN Effect(<<FetchCall(id, resp.ok)>> \o WriteCalls(id, adjusted, submit_ok), adjusted,
                         <<Success(id)>>, <<>>, FALSE)
             ELSE Caught(<<FetchCall(id, resp.ok)>> \o WriteCalls(id, adjusted, submit_ok), adjusted)
        ELSE Effect(<<FetchCall(id, resp.ok)>>, <<>>, <<>>, <<>>, FALSE)

\* update (CLI): the loop body run for one listing.  Its outcomes are the rows
\* log_error writes: one for a failed fetch, one for a failed write.  A
\* fixed-type override whose price float() rejects enters the per-override
\* except clause, whose log_error argument float(override.get('price', 0))
\* raises again: that exception leaves update.
UpdateBody(id, resp, submit_ok, inc, dry) ==
    LET adjusted == AdjustedOverrides("cli_update", resp.overrides, inc)
    IN  IF ~resp.ok THEN Effect(<<FetchCall(id, resp.ok)>>, <<>>, <<Error(id)>>, <<>>, FALSE)
        ELSE IF FloatRaises(resp.overrides)
        THEN Effect(<<FetchCall(id, resp.ok)>>, <<>>, <<>>, <<>>, TRUE)
        ELSE IF UpdateWriteIssued(adjusted, dry)
        THEN Effect(<<FetchCall(id, resp.ok)>> \o WriteCalls(id, adjusted, submit_ok), adjusted,
                    IF submit_ok THEN <<>> ELSE <<Error(id)>>, <<>>, FALSE)
        ELSE Effect(<<FetchCall(id, resp.ok)>>, <<>>, <<>>, <<>>, FALSE)

\* process_listing_adjustments: every exception is logged and raised again
ProcessListingAdjustments(id, resp, submit_ok, inc, st) ==
    LET InRange(o) ==
            /\ o.date >= st.date
            /\ (st.days = 0 \/ o.date < st.date + st.days)
        existing == SelectSeq(resp.overrides, IsFixed)
        ranged == IF st.given THEN SelectSeq(existing, InRange) ELSE existing
        adjusted == AdjustedOverrides("cli_adjust", ranged, inc)
        NoWrite == [calls |-> <<FetchCall(id, resp.ok)>>, batch |-> <<>>, raised |-> FALSE]
    IN  IF ~resp.ok
        THEN [calls |-> <<FetchCall(id, resp.ok)>>, batch |-> <<>>, raised |-> TRUE]
        ELSE IF existing = <<>> THEN NoWrite
        ELSE IF AdjustWriteIssued(adjusted)
        THEN [calls |-> <<FetchCall(id, resp.ok)>> \o WriteCalls(id, adjusted, submit_ok),
              batch |-> adjusted, raised |-> ~submit_ok]
        ELSE NoWrite

\* adjust (CLI): its outcomes are the lines it echoes, "Adjusted prices for"
\* (success) and "Failed to adjust" / "Error:" (error).  With --listing-id the
\* exception reaches the outer handler, which aborts.
AdjustBody(fe, id, resp, submit_ok, inc, st) ==
    LET r == ProcessListingAdjustments(id, resp, submit_ok, inc, st)
    IN  IF r.raised
        THEN Effect(r.calls, r.batch, <<Error(id)>>, <<>>, fe = "cli_adjust_one")
        ELSE Effect(r.calls, r.batch, <<Success(id)>>, <<>>, FALSE)

-----------------------------------------------------------------------------
(* The dry-run preview *)

\* a list left in the order retrieved
Unsorted(s) == s

\* sorted(..., key=lambda x: x['date']): ascending by date, stable
RECURSIVE SortByDate(_)
SortByDate(s) ==
    IF s = <<>> THEN <<>>
    ELSE LET rest == SortByDate(SubSeq(s, 1, Len(s) - 1))
             x == s[Len(s)]
             NotAfter(o) == o.date <= x.date
             After(o) == o.date > x.date
         IN  SelectSeq(rest, NotAfter) \o <<x>> \o SelectSeq(rest, After)

\* s[:n]
Take(s, n) == SubSeq(s, 1, IF Len(s) < n THEN Len(s) ELSE n)

\* one entry of price_changes; new_price is what calculate_adjusted_price returned
PriceChange(fe, o, inc) ==
    [date |-> o.date, old_price |-> PyFloat(o.price), new_price |-> Calc(fe, PyFloat(o.price), inc)]

\* price_changes: the fixed-type overrides sorted by date, the first
\* PREVIEW_LIMIT of them, and of those the ones with a price above zero
PriceChangesOf(fe, ovs, inc) ==
    LET sorted_overrides == SortByDate(SelectSeq(ovs, IsFixed))
        shown == SelectSeq(Take(sorted_overrides, PREVIEW_LIMIT), IsPositive)
    IN  [k \in 1..Len(shown) |-> PriceChange(fe, shown[k], inc)]

\* the front-ends whose dry run computes price_changes
HasPreview(fe) == fe \in {"dashboard", "pkg_dashboard", "web"}

\* price_changes of one listing: computed in a dry run after the overrides
\* were fetched and every price parsed
PriceChanges(fe, resp, inc, dry) ==
    IF dry /\ HasPreview(fe) /\ resp.ok /\ ~FloatRaises(resp.overrides)
    THEN PriceChangesOf(fe, resp.overrides, inc)
    ELSE <<>>

-----------------------------------------------------------------------------
(* The run *)

\* nothing asked yet: the key is set, no option was given
NoRequest == [api_key |-> TRUE, increase |-> "omitted", decrease |-> FALSE, dry_run |-> "omitted"]

FrontEnds ==
    {"dashboard", "pkg_dashboard", "web", "cli_update", "cli_adjust", "cli_adjust_one"}

Batched(fe) == fe \in {"dashboard", "pkg_dashboard"}
IsAdjust(fe) == fe \in {"cli_adjust", "cli_adjust_one"}

NoStart == [given |-> FALSE, date |-> 0, days |-> 0]

\* adjust's --start-date and --days (days = 0 stands for no --days)
StartOptions ==
    {NoStart} \cup [given : {TRUE}, date : {365}, days : {0, 1}]

\* what get_listing_overrides can do: raise, or return a list of overrides
Responses(lists) ==
    {[ok |-> FALSE, overrides |-> <<>>]} \cup {[ok |-> TRUE, overrides |-> l] : l \in lists}

\* responses of the run-level specification: every list of at most one
\* override, a fixed-type and a percentage-type override at the same date,
\* an unparsable price next to an adjustable override, two adjustable overrides
RunLists ==
    {<<>>} \cup {<<o>> : o \in Overrides} \cup
    {<<[date |-> 365, price |-> "100", price_type |-> "fixed"],
       [date |-> 365, price |-> "30", price_type |-> "percent"]>>,
     <<[date |-> 365, price |-> "abc", price_type |-> "fixed"],
       [date |-> 366, price |-> "100", price_type |-> "fixed"]>>,
     <<[date |-> 0, price |-> "100", price_type |-> "fixed"],
       [date |-> 365, price |-> "30", price_type |-> "fixed"]>>}

\* responses of the data-level specification: every list up to MaxOverrides
DataLists == SeqsUpTo(Overrides, MaxOverrides)

InitWith(totals, sizes) ==
    /\ frontend \in FrontEnds
    /\ increase \in BOOLEAN
    /\ dry_run \in (IF IsAdjust(frontend) THEN {FALSE} ELSE BOOLEAN)
    /\ start \in (IF IsAdjust(frontend) THEN StartOptions ELSE {NoStart})
    /\ batch_size \in (IF Batched(frontend) THEN sizes ELSE {1})
    /\ total \in (IF frontend = "cli_adjust_one" THEN {1} ELSE totals)
    /\ pc = "loop"
    /\ i = 0
    /\ j = 0
    /\ cur = 0
    /\ retrieved = <<>>
    /\ submitted = <<>>
    /\ calls = <<>>
    /\ results = <<>>
    /\ dry_run_summary = <<>>
    /\ price = 0
    /\ steps = <<>>
    /\ listings = <<>>
    /\ listing_ids = {}
    /\ pms = ""
    /\ selected = <<>>
    /\ aggregate = "none"
    /\ price_changes = <<>>
    /\ request = NoRequest

Init == InitWith(0..MaxListings, 1..MaxBatch)

InitData == InitWith({1}, {1})

\* a pause after every batch that is full, the last one included
SleepAfterFullBatch(off, size, n) == off + size <= n

\* batch_update: `if i + batch_size < total: time.sleep(delay)`
SleepAfterBatch(off, size, n) == off + size < n

\* len(listings[i:i+batch_size])
BatchLen(off, size, n) == IF n - off < size THEN n - off ELSE size

\* where the loops stand after a listing has been handled
Advance(raised) ==
    IF raised
    THEN pc' = "aborted" /\ UNCHANGED <<i, j>>
    ELSE IF ~Batched(frontend)
    THEN pc' = "loop" /\ i' = i + 1 /\ j' = 0
    ELSE IF j + 1 < BatchLen(i, batch_size, total)
    THEN pc' = "loop" /\ i' = i /\ j' = j + 1
    ELSE IF SleepAfterBatch(i, batch_size, total)
    THEN pc' = "sleep" /\ UNCHANGED <<i, j>>
    ELSE pc' = "loop" /\ i' = i + batch_size /\ j' = 0

Apply(id, resp, eff) ==
    /\ cur' = id
    /\ retrieved' = resp.overrides
    /\ submitted' = eff.batch
    /\ calls' = calls \o eff.calls
    /\ results' = AppendOutcomes(results, eff.results)
    /\ dry_run_summary' = AppendOutcomes(dry_run_summary, eff.summary)
    /\ Advance(eff.raised)
    /\ price_changes' = PriceChanges(frontend, resp, increase, dry_run)
    /\ UNCHANGED <<frontend, increase, dry_run, start, batch_size, total, pricevars, selvars,
                   request>>

BatchUpdateStep(lists) ==
    /\ pc = "loop"
    /\ Batched(frontend)
    /\ i < total
    /\ \E resp \in Responses(lists), submit_ok \in BOOLEAN :
          Apply(i + j + 1, resp,
                BatchUpdateBody(frontend, i + j + 1, resp, submit_ok, increase, dry_run))

UpdatePricesStep(lists) ==
    /\ pc = "loop"
    /\ frontend = "web"
    /\ i < total
    /\ \E resp \in Responses(lists), submit_ok \in BOOLEAN :
          Apply(i + 1, resp, UpdatePricesBody(i + 1, resp, submit_ok, increase, dry_run))

UpdateStep(lists) ==
    /\ pc = "loop"
    /\ frontend = "cli_update"
    /\ i < total
    /\ \E resp \in Responses(lists), submit_ok \in BOOLEAN :
          Apply(i + 1, resp, UpdateBody(i + 1, resp, submit_ok, increase, dry_run))

AdjustStep(lists) ==
    /\ pc = "loop"
    /\ IsAdjust(frontend)
    /\ i < total
    /\ \E resp \in Responses(lists), submit_ok \in BOOLEAN :
          Apply(i + 1, resp, AdjustBody(frontend, i + 1, resp, submit_ok, increase, start))

\* time.sleep(delay) between two batches
Sleep ==
    /\ pc = "sleep"
    /\ calls' = Append(calls, SleepCall)
    /\ i' = i + batch_size
    /\ j' = 0
    /\ pc' = "loop"
    /\ UNCHANGED <<frontend, increase, dry_run, start, batch_size, total, cur,
                   retrieved, submitted, results, dry_run_summary, pricevars, selvars,
                   price_changes, request>>

\* the loop over the listings is exhausted
Finish ==
    /\ pc = "loop"
    /\ i >= total
    /\ pc' = "done"
    /\ UNCHANGED <<frontend, increase, dry_run, start, batch_size, total, i, j, cur,
                   retrieved, submitted, calls, results, dry_run_summary, pricevars, selvars,
                   price_changes, request>>

Next ==
    \/ BatchUpdateStep(RunLists)
    \/ UpdatePricesStep(RunLists)
    \/ UpdateStep(RunLists)
    \/ AdjustStep(RunLists)
    \/ Sleep
    \/ Finish

Spec == Init /\ [][Next]_vars

NextData ==
    \/ BatchUpdateStep(DataLists)
    \/ UpdatePricesStep(DataLists)
    \/ UpdateStep(DataLists)
    \/ AdjustStep(DataLists)
    \/ Finish

SpecData == InitData /\ [][NextData]_vars

-----------------------------------------------------------------------------
(* Observations on a run *)

Ended == pc \in {"done", "aborted"}

CallsOf(op, id) == {a \in 1..Len(calls) : calls[a].op = op /\ calls[a].id = id}

Sleeps == {a \in 1..Len(calls) : calls[a].op = "sleep"}

FetchesBefore(a) == Cardinality({b \in 1..(a - 1) : calls[b].op = "fetch"})

\* a call for listing id raised
Failed(id) == \E a \in 1..Len(calls) : calls[a].id = id /\ ~calls[a].ok

OutcomesOf(id) == {a \in 1..Len(results) : results[a].id = id}

ErrorsOf(id) == {a \in 1..Len(results) : results[a] = Error(id)}

FixedIn(ovs) == {m \in 1..Len(ovs) : ovs[m].price_type = "fixed"}

\* the price string a front-end transmits for a retrieved price string
Transmitted(fe, s, inc) == PyInt(Calc(fe, PyFloat(s), inc))

-----------------------------------------------------------------------------
(* Claims *)

\* C1: in every front-end, each override record submitted for a listing
\* derives from an override retrieved for that listing in the same run: it
\* has the date of a retrieved override, its price is the Price Transform of
\* that override's price, and its price_type is "fixed".
C1_SubmittedDerivesFromRetrieved ==
    \A k \in 1..Len(submitted) :
        /\ submitted[k].price_type = "fixed"
        /\ \E m \in 1..Len(retrieved) :
              /\ submitted[k].date = retrieved[m].date
              /\ Parsable(retrieved[m].price)
              /\ submitted[k].price = Transmitted(frontend, retrieved[m].price, increase)

\* C1 witness: a batch was submitted for a listing and it leaves out some of
\* the overrides retrieved for it
C1_Witness ==
    /\ submitted # <<>>
    /\ Len(submitted) < Len(retrieved)
    /\ \E a \in CallsOf("submit", cur) : calls[a].ok

\* C2: whatever fetches and writes fail, the run attempts every selected
\* listing exactly once, and in apply mode each listing with a failed call
\* has exactly one error outcome.
C2_EveryListingAttemptedOnce ==
    Ended =>
        \A k \in 1..total :
            /\ Cardinality(CallsOf("fetch", k)) = 1
            /\ (~dry_run /\ Failed(k)) => Cardinality(ErrorsOf(k)) = 1

\* C3: at the end of an apply-mode run of a front-end that returns a report
\* (batch_update, update_prices), the report holds exactly one outcome for
\* every selected listing, so its length is the number of selected listings.
C3_OneOutcomePerListing ==
    (pc = "done" /\ ~dry_run /\ frontend \in {"dashboard", "pkg_dashboard", "web"}) =>
        /\ Len(results) = total
        /\ \A k \in 1..total : Cardinality(OutcomesOf(k)) = 1

\* C4: processing is sequential and in input order: the calls for listing k
\* (its fetch, then its write) all come before any call for a later listing,
\* and the outcomes are in the order of their listings in the input.
C4_SequentialInInputOrder ==
    /\ \A a, b \in 1..Len(calls) :
          (a < b /\ calls[a].op # "sleep" /\ calls[b].op # "sleep") =>
              /\ calls[a].id <= calls[b].id
              /\ calls[a].id = calls[b].id =>
                    (calls[a].op = "fetch" /\ calls[b].op = "submit")
    /\ \A a, b \in 1..Len(results) : a < b => results[a].id < results[b].id
    /\ \A a, b \in 1..Len(dry_run_summary) :
          a < b => dry_run_summary[a].id < dry_run_summary[b].id

\* C4 witness: a finished run of three listings in which the first listing
\* was written to and all three have an outcome
C4_Witness ==
    /\ pc = "done"
    /\ total = 3
    /\ Len(results) = 3
    /\ CallsOf("submit", 1) # {}
    /\ CallsOf("submit", 3) # {}

\* C5: batch_update handles the listings in consecutive groups of at most
\* batch_size and pauses only between two groups: a pause comes after a
\* positive whole number of groups and before a listing that is still to be
\* handled, every group but the first is preceded by exactly one pause, and a
\* finished run of n >= 1 listings has paused ceil(n / batch_size) - 1 times
\* (none for n = 0).  The front-ends without batches never pause.
C5_PauseBetweenBatchesOnly ==
    /\ ~Batched(frontend) => Sleeps = {}
    /\ Batched(frontend) =>
          /\ \A a \in Sleeps :
                /\ FetchesBefore(a) > 0
                /\ FetchesBefore(a) % batch_size = 0
                /\ FetchesBefore(a) < total
                /\ calls[a - 1].op # "sleep"
          /\ \A a \in 1..Len(calls) :
                (calls[a].op = "fetch" /\ calls[a].id > 1
                        /\ (calls[a].id - 1) % batch_size = 0) =>
                    calls[a - 1].op = "sleep"
          /\ pc = "done" =>
                Cardinality(Sleeps) =
                    IF total = 0 THEN 0 ELSE ((total + batch_size - 1) \div batch_size) - 1

\* C5 witness: three listings with batch_size 2 were handled as a group of
\* two and a group of one, with one pause, after the second listing
C5_Witness ==
    /\ pc = "done"
    /\ Batched(frontend)
    /\ total = 3
    /\ batch_size = 2
    /\ Cardinality(Sleeps) = 1
    /\ \E a \in Sleeps : FetchesBefore(a) = 2

\* C6: for every listing, at most one write call is issued in a run,
\* whatever was fetched and whatever failed.
C6_AtMostOneWritePerListing ==
    \A k \in 1..total : Cardinality(CallsOf("submit", k)) <= 1

\* C6 witness: a finished run wrote a batch of two records to one listing,
\* in one call, and wrote nothing to another
C6_Witness ==
    /\ pc = "done"
    /\ Len(submitted) = 2
    /\ Cardinality(CallsOf("submit", cur)) = 1
    /\ \E k \in 1..total : CallsOf("fetch", k) # {} /\ CallsOf("submit", k) = {}

\* C7: in dry-run mode no write call is issued for any listing.
C7_DryRunNeverWrites ==
    dry_run => \A a \in 1..Len(calls) : calls[a].op # "submit"

\* C7 witness: a dry run has fetched, for some listing, overrides of which
\* one is adjustable, and has ended
C7_Witness ==
    /\ dry_run
    /\ pc = "done"
    /\ \E m \in 1..Len(retrieved) :
          /\ retrieved[m].price_type = "fixed"
          /\ retrieved[m].price = "100"

C9_SubmittedDatesInWindow ==
    \A k \in 1..Len(submitted) : submitted[k].date > 0 /\ submitted[k].date <= 365

\* C10: an override whose price is unparsable or not positive is silently
\* skipped: in an apply-mode run without a date range, when a listing's
\* overrides hold such a fixed-type override next to an adjustable one, the
\* adjustable ones are still submitted, and unless a call failed the listing
\* gets no error outcome and the run goes on.
C10_BadPriceSilentlySkipped ==
    LET Bad(o) == o.price_type = "fixed" /\ (~Parsable(o.price) \/ PyFloat(o.price) <= 0)
        Good(o) == o.price_type = "fixed" /\ Parsable(o.price) /\ PyFloat(o.price) > 0
    IN  (/\ cur > 0
         /\ ~dry_run
         /\ ~start.given
         /\ \E a \in CallsOf("fetch", cur) : calls[a].ok
         /\ \E m \in 1..Len(retrieved) : Bad(retrieved[m])
         /\ \E m \in 1..Len(retrieved) : Good(retrieved[m])) =>
            /\ Len(submitted) = Len(SelectSeq(retrieved, Good))
            /\ ~Failed(cur) => (ErrorsOf(cur) = {} /\ pc # "aborted")

\* no retrieved override passes the Override Filter
NoEligible(ovs) ==
    \A k \in 1..Len(ovs) :
        ~(IsFixed(ovs[k]) /\ Parsable(ovs[k].price) /\ IsPositive(ovs[k]))

\* C11: when the Override Filter leaves no eligible override for a listing
\* (its fetch succeeded and no price raised), no write call is issued for it
\* and the listing gets an Outcome that is not an error and reports zero
\* changes: a success entry, or in dry-run a summary with 0 changes.  Stated
\* for batch_update, update_prices and adjust / process_listing_adjustments.
C11_EmptyFilterGivesZeroChangeOutcome ==
    (/\ cur > 0
     /\ frontend # "cli_update"
     /\ ~Failed(cur)
     /\ ~FloatRaises(retrieved)
     /\ NoEligible(retrieved)) =>
        /\ CallsOf("submit", cur) = {}
        /\ \/ \E a \in 1..Len(results) : results[a] = Success(cur)
           \/ \E a \in 1..Len(dry_run_summary) : dry_run_summary[a] = Summary(cur, 0)

\* the part of C11 about the write: with no eligible override no write call
\* is issued, in any front-end
C11_NoWriteWhenNothingEligible ==
    (cur > 0 /\ NoEligible(retrieved)) => (CallsOf("submit", cur) = {} /\ submitted = <<>>)

-----------------------------------------------------------------------------
(* The price of one override over successive apply-mode runs *)

\* the price a listing shows before the next run: the one sent last
CurrentPrice == IF steps = <<>> THEN price ELSE steps[Len(steps)].sent

\* one apply-mode run over a listing whose only override is fixed-type with
\* the current price: current_price = float(price string), new_price =
\* calculate_adjusted_price(current_price, increase), and the price sent is
\* str(int(new_price)).  A price that is not positive is skipped.
AdjustPrice(inc) ==
    /\ pc = "price"
    /\ Len(steps) < MaxRuns
    /\ CurrentPrice > 0
    /\ LET old_price == CurrentPrice * 100
           new_price == Calc(frontend, old_price, inc)
       IN  steps' = Append(steps, [increase |-> inc, old |-> CurrentPrice,
                                   new_price |-> new_price, sent |-> PyInt(new_price)])
    /\ UNCHANGED <<frontend, increase, dry_run, start, batch_size, total, pc, i, j, cur,
                   retrieved, submitted, calls, results, dry_run_summary, price, selvars,
                   price_changes, request>>

InitPrice ==
    /\ frontend \in FrontEnds
    /\ increase = TRUE
    /\ dry_run = FALSE
    /\ start = NoStart
    /\ batch_size = 1
    /\ total = 1
    /\ pc = "price"
    /\ i = 0
    /\ j = 0
    /\ cur = 0
    /\ retrieved = <<>>
    /\ submitted = <<>>
    /\ calls = <<>>
    /\ results = <<>>
    /\ dry_run_summary = <<>>
    /\ price \in 1..MaxPrice
    /\ steps = <<>>
    /\ listings = <<>>
    /\ listing_ids = {}
    /\ pms = ""
    /\ selected = <<>>
    /\ aggregate = "none"
    /\ price_changes = <<>>
    /\ request = NoRequest

NextPrice == \E inc \in BOOLEAN : AdjustPrice(inc)

SpecPrice == InitPrice /\ [][NextPrice]_vars

\* n is a whole number nearest to x (x in hundredths)
Nearest(n, x) == 100 * n - x <= 50 /\ x - 100 * n <= 50

\* p (whole units) times (1 + k/100) or (1 - k/100), in hundredths
Scaled(p, inc) == p * (IF inc THEN 100 + ADJUSTMENT_PERCENTAGE ELSE 100 - ADJUSTMENT_PERCENTAGE)

\* the run that raised the price and the run that lowered it again
RoundTrip == Len(steps) = 2 /\ steps[1].increase /\ ~steps[2].increase

\* C12: calculate_adjusted_price(price, increase) returns price times
\* (1 + 5/100) when increase is true and price times (1 - 5/100) otherwise,
\* rounded to the nearest whole unit, and the price sent is that integer;
\* for price 100 the result is 105 on increase and 95 on decrease.  Stated
\* for every front-end's calculate_adjusted_price.
C12_RoundedToNearestWholeUnit ==
    \A k \in 1..Len(steps) :
        /\ steps[k].new_price % 100 = 0
        /\ Nearest(steps[k].new_price \div 100, Scaled(steps[k].old, steps[k].increase))
        /\ steps[k].sent = steps[k].new_price \div 100
        /\ steps[k].old = 100 => steps[k].sent = (IF steps[k].increase THEN 105 ELSE 95)

\* the part of C12 that holds: the transform of price_calculator.py, bound
\* by every front-end but the standalone dashboard, rounds to the nearest
\* whole unit and that integer is sent
C12_PackageRoundsToNearest ==
    frontend # "dashboard" =>
        \A k \in 1..Len(steps) :
            /\ steps[k].new_price % 100 = 0
            /\ Nearest(steps[k].new_price \div 100, Scaled(steps[k].old, steps[k].increase))
            /\ steps[k].sent = steps[k].new_price \div 100

\* C13: for every positive price the price sent on an increase is strictly
\* greater than the old price and the price sent on a decrease is strictly
\* smaller, small prices such as 1 to 9 included.
C13_StrictDirection ==
    \A k \in 1..Len(steps) :
        IF steps[k].increase
        THEN steps[k].sent > steps[k].old
        ELSE steps[k].sent < steps[k].old

\* what the code gives in place of C13: the price sent on an increase is
\* not below the old price and the price sent on a decrease is not above it;
\* the change is strict for every price of at least 20 (at least 11 where
\* the rounding transform of price_calculator.py is bound).
C13_DirectionStrictFromTwenty ==
    \A k \in 1..Len(steps) :
        /\ IF steps[k].increase
           THEN steps[k].sent >= steps[k].old
           ELSE steps[k].sent <= steps[k].old
        /\ (steps[k].old >= 20 \/ (frontend # "dashboard" /\ steps[k].old >= 11)) =>
              steps[k].sent # steps[k].old

C15_RoundTripRestoresPrice ==
    RoundTrip => steps[2].sent = price

-----------------------------------------------------------------------------
(* The Override Filter as a function *)

\* a filter that loses the first override it accepted
EligibleButFirst(ovs) ==
    LET Positive(o) == Parsable(o.price) /\ IsPositive(o)
        accepted == SelectSeq(SelectSeq(ovs, IsFixed), Positive)
    IN  IF accepted = <<>> THEN <<>> ELSE Tail(accepted)

\* the overrides the filter accepts: the fixed-type ones are selected first
\* (existing_overrides), then those with a price above zero get a record
Eligible(ovs) ==
    LET Positive(o) == Parsable(o.price) /\ IsPositive(o)
        existing_overrides == SelectSeq(ovs, IsFixed)
    IN  SelectSeq(existing_overrides, Positive)

-----------------------------------------------------------------------------
(* Listing Selector *)

\* a flag of a listing record: present and true, present and false, absent
FlagValues == {"True", "False", "absent"}

PmsNames == {"cloudbeds", "hostaway"}

ListingAttrs == [isHidden : FlagValues, push_enabled : FlagValues, pms : PmsNames]

\* the accounts of the model: at most MaxFetched listings, the k-th with id k
Accounts ==
    {[k \in 1..Len(s) |-> [id |-> k, isHidden |-> s[k].isHidden,
                           push_enabled |-> s[k].push_enabled, pms |-> s[k].pms]] :
        s \in SeqsUpTo(ListingAttrs, MaxFetched)}

\* an id as a request carries it: a string, or a JSON number
Id(n, isStr) == [n |-> n, str |-> isStr]

\* str(x) of an id
PyStr(x) == Id(x.n, TRUE)

\* the ids a command line can name: those of the account and one more
StrIds == {Id(n, TRUE) : n \in 1..(MaxFetched + 1)}

\* the ids a JSON request can name: strings, or the number 1
WebIds == StrIds \cup {Id(1, FALSE)}

IdOptions(fe) ==
    CASE fe = "web" -> SUBSET WebIds
      [] fe = "cli_update" -> SUBSET StrIds
      [] fe = "cli_adjust_one" -> {{x} : x \in StrIds}
      [] OTHER -> {{}}

PmsOptions(fe) == IF fe = "cli_adjust" THEN {""} \cup PmsNames ELSE {""}

\* not listing.get('isHidden', True)
NotHidden(l) == l.isHidden = "False"

\* listing.get('push_enabled', False)
PushEnabled(l) == l.push_enabled = "True"

BaseFilter(l) == NotHidden(l) /\ PushEnabled(l)

\* a selector that forgets the PMS filter
PmsIgnored(l, p) == TRUE

\* (not pms or listing.get('pms') == pms)
PmsMatches(l, p) == p = "" \/ l.pms = p

IdsOf(ls) == [k \in 1..Len(ls) |-> ls[k].id]

get_active_listings(ls, p) ==
    LET Keep(l) == BaseFilter(l) /\ PmsMatches(l, p)
    IN  SelectSeq(ls, Keep)

fetch_listings(ls) == SelectSeq(ls, BaseFilter)

\* [l for l in ls if str(l.get('id')) in ids]
WithIds(ls, ids) ==
    LET Keep(l) == Id(l.id, TRUE) \in ids
    IN  SelectSeq(ls, Keep)

\* the selection is made: the run loops over sel, or ends with report agg
Selected(sel, agg, nextpc) ==
    /\ selected' = sel
    /\ aggregate' = agg
    /\ pc' = nextpc
    /\ UNCHANGED <<frontend, increase, dry_run, start, batch_size, total, i, j, cur,
                   retrieved, submitted, calls, results, dry_run_summary, pricevars,
                   listings, listing_ids, pms, price_changes, request>>

\* dashboards: fetch_listings, then the multiselect over the fetched listings;
\* with nothing fetched or nothing chosen batch_update is not called
SelectDashboard ==
    /\ pc = "select"
    /\ Batched(frontend)
    /\ \E chosen \in SUBSET {Id(l, TRUE) : l \in 1..Len(listings)} :
          LET sel == WithIds(fetch_listings(listings), chosen)
          IN  IF sel = <<>>
              THEN Selected(<<>>, "nothing_selected", "done")
              ELSE Selected(IdsOf(sel), aggregate, "fetch")

\* update_prices: base filter, then the supplied ids as they came
SelectUpdatePrices ==
    /\ pc = "select"
    /\ frontend = "web"
    /\ LET active_listings == fetch_listings(listings)
           sel == IF listing_ids # {}
                  THEN WithIds(active_listings, listing_ids)
                  ELSE active_listings
       IN  Selected(IdsOf(sel), aggregate, "fetch")

\* update: no base filter; the supplied ids are converted with str(); when
\* none matches, one error row is logged and the command returns
SelectUpdate ==
    /\ pc = "select"
    /\ frontend = "cli_update"
    /\ LET ids == {PyStr(x) : x \in listing_ids}
           sel == IF listing_ids # {} THEN WithIds(listings, ids) ELSE listings
       IN  IF listing_ids # {} /\ sel = <<>>
           THEN Selected(<<>>, "no_listings_found", "done")
           ELSE Selected(IdsOf(sel), aggregate, "fetch")

\* adjust without --listing-id: get_active_listings(api_client, pms)
SelectAdjust ==
    /\ pc = "select"
    /\ frontend = "cli_adjust"
    /\ Selected(IdsOf(get_active_listings(listings, pms)), aggregate, "fetch")

\* adjust --listing-id: the id goes to process_listing_adjustments as given,
\* get_listings is not called
SelectAdjustOne ==
    /\ pc = "select"
    /\ frontend = "cli_adjust_one"
    /\ \E x \in listing_ids : Selected(<<x.n>>, aggregate, "fetch")

\* the per-listing loop reaches the next selected listing and calls
\* get_listing_overrides for it
FetchSelected ==
    /\ pc = "fetch"
    /\ i < Len(selected)
    /\ calls' = Append(calls, FetchCall(selected[i + 1], TRUE))
    /\ i' = i + 1
    /\ UNCHANGED <<frontend, increase, dry_run, start, batch_size, total, pc, j, cur,
                   retrieved, submitted, results, dry_run_summary, pricevars, selvars,
                   price_changes, request>>

\* the loop is exhausted; update_prices answers {'status': 'success', ...}
FinishSelected ==
    /\ pc = "fetch"
    /\ i >= Len(selected)
    /\ pc' = "done"
    /\ aggregate' = (IF frontend = "web" THEN "success" ELSE aggregate)
    /\ UNCHANGED <<frontend, increase, dry_run, start, batch_size, total, i, j, cur,
                   retrieved, submitted, calls, results, dry_run_summary, pricevars,
                   listings, listing_ids, pms, selected, price_changes, request>>

InitSelect ==
    /\ frontend \in FrontEnds
    /\ increase = TRUE
    /\ dry_run = FALSE
    /\ start = NoStart
    /\ batch_size = 1
    /\ total = 0
    /\ pc = "select"
    /\ i = 0
    /\ j = 0
    /\ cur = 0
    /\ retrieved = <<>>
    /\ submitted = <<>>
    /\ calls = <<>>
    /\ results = <<>>
    /\ dry_run_summary = <<>>
    /\ price = 0
    /\ steps = <<>>
    /\ listings \in Accounts
    /\ listing_ids \in IdOptions(frontend)
    /\ pms \in PmsOptions(frontend)
    /\ selected = <<>>
    /\ aggregate = "none"
    /\ price_changes = <<>>
    /\ request = NoRequest

NextSelect ==
    \/ SelectDashboard
    \/ SelectUpdatePrices
    \/ SelectUpdate
    \/ SelectAdjust
    \/ SelectAdjustOne
    \/ FetchSelected
    \/ FinishSelected

SpecSelect == InitSelect /\ [][NextSelect]_vars

-----------------------------------------------------------------------------
(* Claims on the Listing Selector *)

\* the account's listing with id n is visible and push-enabled
PassedBaseFilter(n) ==
    \E k \in 1..Len(listings) :
        /\ listings[k].id = n
        /\ listings[k].isHidden = "False"
        /\ listings[k].push_enabled = "True"

\* ids were supplied and, compared as strings, no listing of the account has one
IdsMatchNothing ==
    /\ listing_ids # {}
    /\ \A k \in 1..Len(listings), x \in listing_ids : x.n # listings[k].id

\* C17: in every front-end, CLI update and adjust with and without explicit
\* ids included, every listing for which the run fetches overrides passed
\* the base filter: it is not hidden and push-enabled, a missing flag
\* counting as hidden / not push-enabled.
C17_OnlyBaseFilteredProcessed ==
    \A a \in 1..Len(calls) : PassedBaseFilter(calls[a].id)

\* the part of C17 that holds: the dashboards, update_prices and adjust
\* without --listing-id process base-filtered listings only
C17_BaseFilterWhereApplied ==
    frontend \notin {"cli_update", "cli_adjust_one"} =>
        \A a \in 1..Len(calls) : PassedBaseFilter(calls[a].id)

\* C18: when listing ids are supplied and no fetched listing has one of them
\* (compared as strings), the run reports one aggregate 'no listings found'
\* error, not a success and no per-listing outcome, and makes no override
\* fetch and no submission.
C18_NoMatchIsAggregateError ==
    (pc = "done" /\ IdsMatchNothing) =>
        /\ aggregate = "no_listings_found"
        /\ calls = <<>>
        /\ results = <<>>
        /\ dry_run_summary = <<>>

\* the part of C18 that holds: update reports the aggregate error and
\* fetches nothing
C18_UpdateReportsNoListings ==
    (frontend = "cli_update" /\ pc = "done" /\ IdsMatchNothing) =>
        (aggregate = "no_listings_found" /\ calls = <<>>)

\* C19: with ids not given, adjust selects exactly the fetched listings that
\* are not hidden, push-enabled and, when a PMS filter is given, tagged with
\* that PMS; with no PMS filter exactly the base-filtered listings; in the
\* order fetched, each once.
C19_PmsFilterSelection ==
    (frontend = "cli_adjust" /\ pc # "select") =>
        /\ \A k \in 1..Len(listings) :
              (\E m \in 1..Len(selected) : selected[m] = listings[k].id) <=>
                  /\ listings[k].isHidden = "False"
                  /\ listings[k].push_enabled = "True"
                  /\ (pms # "" => listings[k].pms = pms)
        /\ \A m \in 1..Len(selected) : \E k \in 1..Len(listings) : listings[k].id = selected[m]
        /\ \A m, n \in 1..Len(selected) : m < n => selected[m] < selected[n]

\* C19 witness: two listings pass the base filter, the PMS filter kept the
\* one tagged with the given PMS, and its overrides were fetched
C19_Witness ==
    /\ frontend = "cli_adjust"
    /\ pc = "done"
    /\ pms # ""
    /\ Len(listings) = 2
    /\ PassedBaseFilter(1)
    /\ PassedBaseFilter(2)
    /\ Len(selected) = 1
    /\ calls = <<FetchCall(selected[1], TRUE)>>

-----------------------------------------------------------------------------
(* Claims on failures *)

\* listing id has an Outcome with status error
HasErrorOutcome(id) ==
    \/ \E a \in 1..Len(results) : results[a] = Error(id)
    \/ \E a \in 1..Len(dry_run_summary) : dry_run_summary[a] = SummaryError(id)

\* C20: a failed fetch or a failed submit never leaves the per-listing code
\* as an exception: the code returns, the listing gets an Outcome with
\* status error, and the run is not aborted.  Stated for
\* process_listing_adjustments as adjust calls it and for the per-listing
\* bodies of batch_update, update_prices and update.
C20_FailureNeverPropagates ==
    (cur > 0 /\ Failed(cur)) => (pc # "aborted" /\ HasErrorOutcome(cur))

\* the part of C20 that holds: in batch_update, update_prices, update and
\* the loop of adjust a failed call gives an error Outcome and the run goes on
C20_FailureCaughtInLoops ==
    (cur > 0 /\ Failed(cur) /\ frontend # "cli_adjust_one") =>
        (pc # "aborted" /\ HasErrorOutcome(cur))

-----------------------------------------------------------------------------
(* Claims on consistency and on reported success *)

\* C24: the rounding rule is the same everywhere: for every positive price
\* and direction the price string sent by the CLI, the web endpoint, the
\* package dashboard and the standalone dashboard is the same integer.
C24_SameIntegerInEveryFrontEnd ==
    \A k \in 1..Len(steps) : \A fe \in FrontEnds :
        PyInt(Calc(fe, steps[k].old * 100, steps[k].increase)) = steps[k].sent

\* C29: whenever a listing is reported as success (a 'success' result of
\* batch_update / update_prices, the 'Adjusted prices for' line of adjust),
\* exactly one write call was issued for it in the run and it succeeded, and
\* no call for it failed.
C29_SuccessMeansOneGoodWrite ==
    \A a \in 1..Len(results) :
        results[a].status = "success" =>
            /\ Cardinality(CallsOf("submit", results[a].id)) = 1
            /\ \A b \in CallsOf("submit", results[a].id) : calls[b].ok
            /\ ~Failed(results[a].id)

\* the part of C29 that holds: a 'success' result of batch_update and
\* update_prices stands for exactly one write that succeeded
C29_DashboardSuccessMeansWrite ==
    ~IsAdjust(frontend) =>
        \A a \in 1..Len(results) :
            results[a].status = "success" =>
                /\ Cardinality(CallsOf("submit", results[a].id)) = 1
                /\ ~Failed(results[a].id)

-----------------------------------------------------------------------------
(* The submission record with all its fields *)

Currencies == {"USD", "EUR"}

\* min_stay of an override without the key
NoMinStay == 0

\* overrides as the service returns them: currency and min_stay may be absent
WideOverrides ==
    [date : DateOffsets, price : PriceStrings, price_type : PriceTypes,
     currency : Currencies \cup {"absent"}, min_stay : {NoMinStay, 1, 3}]

\* a record that takes the defaults whatever the override carries
SubmissionRecordFromDefaults(fe, o, inc) ==
    [date |-> o.date,
     price |-> PyInt(Calc(fe, PyFloat(o.price), inc)),
     price_type |-> "fixed",
     currency |-> "USD",
     min_stay |-> 1]

\* the record each front-end sends for an override.  adjust copies the
\* override and replaces price and price_type; the others build a new record
\* with override.get('currency', 'USD') and override.get('min_stay', 1)
\* (update takes its defaults from the listing, here 'USD' and 1).
SubmissionRecord(fe, o, inc) ==
    [date |-> AdjustedRecord(fe, o, inc).date,
     price |-> AdjustedRecord(fe, o, inc).price,
     price_type |-> AdjustedRecord(fe, o, inc).price_type,
     currency |-> IF IsAdjust(fe) \/ o.currency # "absent" THEN o.currency ELSE "USD",
     min_stay |-> IF IsAdjust(fe) \/ o.min_stay # NoMinStay THEN o.min_stay ELSE 1]

\* the adjusted batch is built from the retrieved overrides
BuildRecords ==
    /\ pc = "record"
    /\ submitted' = [k \in 1..Len(Eligible(retrieved)) |->
                        SubmissionRecord(frontend, Eligible(retrieved)[k], increase)]
    /\ pc' = "done"
    /\ UNCHANGED <<frontend, increase, dry_run, start, batch_size, total, i, j, cur,
                   retrieved, calls, results, dry_run_summary, pricevars, selvars,
                   price_changes, request>>

InitRecord ==
    /\ frontend \in FrontEnds
    /\ increase \in BOOLEAN
    /\ dry_run = FALSE
    /\ start = NoStart
    /\ batch_size = 1
    /\ total = 1
    /\ pc = "record"
    /\ i = 0
    /\ j = 0
    /\ cur = 1
    /\ retrieved \in {<<o>> : o \in WideOverrides}
    /\ submitted = <<>>
    /\ calls = <<>>
    /\ results = <<>>
    /\ dry_run_summary = <<>>
    /\ price = 0
    /\ steps = <<>>
    /\ listings = <<>>
    /\ listing_ids = {}
    /\ pms = ""
    /\ selected = <<>>
    /\ aggregate = "none"
    /\ price_changes = <<>>
    /\ request = NoRequest

NextRecord == BuildRecords

SpecRecord == InitRecord /\ [][NextRecord]_vars

\* C23: each submitted record keeps the date of the retrieved override it
\* derives from, and its currency and minimum stay whenever the override
\* carries them; its price is the transformed price and its price_type is
\* 'fixed'.
C23_FieldsPreserved ==
    \A k \in 1..Len(submitted) :
        \E m \in 1..Len(retrieved) :
            /\ submitted[k].date = retrieved[m].date
            /\ retrieved[m].currency # "absent" => submitted[k].currency = retrieved[m].currency
            /\ retrieved[m].min_stay # NoMinStay => submitted[k].min_stay = retrieved[m].min_stay
            /\ submitted[k].price = Transmitted(frontend, retrieved[m].price, increase)
            /\ submitted[k].price_type = "fixed"

\* C23 witness: an override in EUR with a minimum stay of 3 was submitted
\* with a changed price
C23_Witness ==
    /\ Len(submitted) = 1
    /\ retrieved[1].currency = "EUR"
    /\ retrieved[1].min_stay = 3
    /\ retrieved[1].price = "100"
    /\ submitted[1].price # 100

-----------------------------------------------------------------------------
(* Dry runs over longer override lists *)

PreviewKinds == [price : {"0", "30"}, price_type : PriceTypes]

\* lists of up to MaxPreview overrides with distinct dates, in ascending or
\* in descending date order
PreviewLists ==
    {[k \in 1..Len(s) |-> [date |-> IF asc THEN k ELSE Len(s) + 1 - k,
                           price |-> s[k].price,
                           price_type |-> s[k].price_type]] :
        s \in SeqsUpTo(PreviewKinds, MaxPreview), asc \in BOOLEAN}

InitPreview ==
    /\ frontend \in {fe \in FrontEnds : HasPreview(fe)}
    /\ increase \in BOOLEAN
    /\ dry_run = TRUE
    /\ start = NoStart
    /\ batch_size = 1
    /\ total = 1
    /\ pc = "loop"
    /\ i = 0
    /\ j = 0
    /\ cur = 0
    /\ retrieved = <<>>
    /\ submitted = <<>>
    /\ calls = <<>>
    /\ results = <<>>
    /\ dry_run_summary = <<>>
    /\ price = 0
    /\ steps = <<>>
    /\ listings = <<>>
    /\ listing_ids = {}
    /\ pms = ""
    /\ selected = <<>>
    /\ aggregate = "none"
    /\ price_changes = <<>>
    /\ request = NoRequest

NextPreview ==
    \/ BatchUpdateStep(PreviewLists)
    \/ UpdatePricesStep(PreviewLists)
    \/ Finish

SpecPreview == InitPreview /\ [][NextPreview]_vars

\* the dry run of listing cur produced a summary that is not an error
Previewed ==
    /\ cur > 0
    /\ dry_run
    /\ Len(dry_run_summary) = 1
    /\ ~dry_run_summary[1].error

\* positions of the eligible retrieved overrides
EligibleIn(ovs) ==
    {m \in 1..Len(ovs) : IsFixed(ovs[m]) /\ Parsable(ovs[m].price) /\ IsPositive(ovs[m])}

\* fewer than PREVIEW_LIMIT overrides of the set ms are dated before ovs[m]
AmongEarliest(ovs, ms, m) ==
    Cardinality({q \in ms : ovs[q].date < ovs[m].date}) < PREVIEW_LIMIT

\* price_changes is in ascending date order and lists exactly the dates of
\* the retrieved overrides at the positions ms, each once
ListsInDateOrder(ms) ==
    /\ \A a, b \in 1..Len(price_changes) : a < b => price_changes[a].date < price_changes[b].date
    /\ {price_changes[a].date : a \in 1..Len(price_changes)} = {retrieved[m].date : m \in ms}

\* C27: in a dry run the summary's 'changes' is the number n of eligible
\* overrides, and 'price_changes' lists the min(5, n) earliest-dated
\* eligible overrides in ascending date order, also when some of the five
\* earliest fixed-type overrides have a price that is not positive.
C27_PreviewListsEarliestEligible ==
    Previewed =>
        /\ dry_run_summary[1].changes = Cardinality(EligibleIn(retrieved))
        /\ ListsInDateOrder({m \in EligibleIn(retrieved) :
                                AmongEarliest(retrieved, EligibleIn(retrieved), m)})

\* C27 amended: 'changes' is the number n of eligible overrides, and
\* 'price_changes' lists, in ascending date order, the eligible ones among
\* the five earliest-dated fixed-type overrides: min(5, n) entries when the
\* five earliest fixed-type overrides all have a positive price, fewer
\* otherwise.
C27_PreviewListsEligibleOfFirstFive ==
    Previewed =>
        /\ dry_run_summary[1].changes = Cardinality(EligibleIn(retrieved))
        /\ ListsInDateOrder({m \in EligibleIn(retrieved) :
                                AmongEarliest(retrieved, FixedIn(retrieved), m)})

\* C27 witness: six fixed-type overrides retrieved latest first, the
\* earliest with price 0 and five eligible: 5 changes, 4 entries listed
C27_Witness ==
    /\ Previewed
    /\ Len(retrieved) = 6
    /\ retrieved[1].date = 6
    /\ Cardinality(FixedIn(retrieved)) = 6
    /\ retrieved[6].price = "0"
    /\ dry_run_summary[1].changes = 5
    /\ Len(price_changes) = 4
    /\ price_changes[1].date = 2

\* C28: for the same fetched overrides and direction, every new price the
\* dry-run preview shows for a date is the price an apply-mode run submits
\* for that date, and the 'changes' count is the number of records the
\* apply-mode run submits.  The standalone dashboard shows the first three
\* entries with format .0f, the package dashboard and the web endpoint
\* show new_price as it is.
C28_PreviewShowsSubmittedPrices ==
    Previewed =>
        /\ dry_run_summary[1].changes = Len(AdjustedOverrides(frontend, retrieved, increase))
        /\ \A k \in 1..Len(price_changes) :
              (frontend = "dashboard" => k <= 3) =>
                  \E m \in 1..Len(AdjustedOverrides(frontend, retrieved, increase)) :
                      /\ AdjustedOverrides(frontend, retrieved, increase)[m].date = price_changes[k].date
                      /\ IF frontend = "dashboard"
                         THEN AdjustedOverrides(frontend, retrieved, increase)[m].price =
                                  PyRound(price_changes[k].new_price)
                         ELSE AdjustedOverrides(frontend, retrieved, increase)[m].price * 100 =
                                  price_changes[k].new_price

\* the part of C28 that holds: in the package dashboard and the web endpoint
\* the preview shows the prices an apply-mode run submits
C28_PackagePreviewFaithful ==
    (Previewed /\ frontend # "dashboard") =>
        \A k \in 1..Len(price_changes) :
            \E m \in 1..Len(AdjustedOverrides(frontend, retrieved, increase)) :
                /\ AdjustedOverrides(frontend, retrieved, increase)[m].date = price_changes[k].date
                /\ AdjustedOverrides(frontend, retrieved, increase)[m].price * 100 =
                       price_changes[k].new_price

-----------------------------------------------------------------------------
(* From the request to the first listing *)

Given == {"omitted", "true", "false"}

\* what a caller can ask of each front-end: update has the flags --increase,
\* --decrease and --dry-run; adjust has --increase/--decrease and no dry run;
\* the web request can carry 'increase' and 'dry_run'; the dashboards have a
\* radio button and a check box that can be left as they are
Requests(fe) ==
    CASE fe = "cli_update" ->
            [api_key : BOOLEAN, increase : {"omitted", "true"}, decrease : BOOLEAN,
             dry_run : {"omitted", "true"}]
      [] IsAdjust(fe) ->
            [api_key : BOOLEAN, increase : Given, decrease : {FALSE}, dry_run : {"omitted"}]
      [] OTHER ->
            [api_key : BOOLEAN, increase : Given, decrease : {FALSE}, dry_run : Given]

\* update: both or neither of --increase / --decrease: click.Abort
BadFlags(fe, req) ==
    fe = "cli_update" /\ ((req.increase = "true") <=> req.decrease)

\* the direction of the run: data.get('increase', False) in update_prices,
\* default=True in adjust, the first radio option in the dashboards
DirectionOf(fe, req) ==
    IF fe \in {"web", "cli_update"} THEN req.increase = "true" ELSE req.increase # "false"

\* the mode of the run: data.get('dry_run', False), the --dry-run flag (none
\* in adjust), the check box with value=True
DryRunOf(fe, req) ==
    IF Batched(fe) THEN req.dry_run # "false"
    ELSE IF IsAdjust(fe) THEN FALSE
    ELSE req.dry_run = "true"

\* a constructor that accepts a missing key
ConstructorNeverRaises(key) == FALSE

\* PriceLabsAPI.__init__: `if not self.api_key: raise ValueError(...)`
ConstructorRaises(key) == ~key

\* a failure of get_listings that goes unnoticed
ListingsFailureUnnoticed(ok) == FALSE

\* get_listings raised
ListingsFailed(ok) == ~ok

ListingsCall(ok) == [op |-> "listings", id |-> 0, ok |-> ok]

\* the run-level error a command line prints or logs (no listing id)
RunError == Error(0)

\* how each front-end reports a failure before the loop and how it ends:
\* update_prices answers status 'error' (500), a dashboard shows the
\* exception and stops, adjust echoes 'Error: ...' and aborts, update logs
\* one error row and returns
FailBeforeLoop ==
    /\ results' = (IF frontend \in {"cli_update", "cli_adjust", "cli_adjust_one"}
                   THEN Append(results, RunError) ELSE results)
    /\ aggregate' = (IF frontend \in {"web", "dashboard", "pkg_dashboard"}
                     THEN "error" ELSE aggregate)
    /\ pc' = (IF frontend \in {"web", "cli_update"} THEN "done" ELSE "aborted")

\* the options are read and the API client is constructed.  update checks
\* its flags first; src/streamlit_app.py checks API_KEY at module level
\* before anything else.  In update the constructor's ValueError is not
\* caught: the command dies with it.
Start ==
    /\ pc = "start"
    /\ IF BadFlags(frontend, request)
       THEN /\ results' = Append(results, RunError)
            /\ pc' = "aborted"
            /\ UNCHANGED <<increase, dry_run, aggregate>>
       ELSE IF (frontend = "dashboard" /\ ~request.api_key) \/ ConstructorRaises(request.api_key)
       THEN /\ results' = (IF IsAdjust(frontend) THEN Append(results, RunError) ELSE results)
            /\ aggregate' = (IF IsAdjust(frontend) THEN aggregate ELSE "error")
            /\ pc' = (IF frontend = "web" THEN "done" ELSE "aborted")
            /\ UNCHANGED <<increase, dry_run>>
       ELSE /\ increase' = DirectionOf(frontend, request)
            /\ dry_run' = DryRunOf(frontend, request)
            /\ pc' = (IF frontend = "cli_adjust_one" THEN "loop" ELSE "listings")
            /\ UNCHANGED <<results, aggregate>>
    /\ UNCHANGED <<frontend, start, batch_size, total, i, j, cur, retrieved, submitted,
                   calls, dry_run_summary, pricevars, listings, listing_ids, pms, selected,
                   price_changes, request>>

\* get_listings is called; when it raises the run ends before the loop
GetListings ==
    /\ pc = "listings"
    /\ \E ok \in BOOLEAN :
          /\ calls' = Append(calls, ListingsCall(ok))
          /\ IF ListingsFailed(ok)
             THEN FailBeforeLoop
             ELSE pc' = "loop" /\ UNCHANGED <<results, aggregate>>
    /\ UNCHANGED <<frontend, increase, dry_run, start, batch_size, total, i, j, cur,
                   retrieved, submitted, dry_run_summary, pricevars, listings, listing_ids,
                   pms, selected, price_changes, request>>

InitRequest ==
    /\ frontend \in FrontEnds
    /\ request \in Requests(frontend)
    /\ increase = FALSE
    /\ dry_run = FALSE
    /\ start = NoStart
    /\ batch_size = 1
    /\ total = 1
    /\ pc = "start"
    /\ i = 0
    /\ j = 0
    /\ cur = 0
    /\ retrieved = <<>>
    /\ submitted = <<>>
    /\ calls = <<>>
    /\ results = <<>>
    /\ dry_run_summary = <<>>
    /\ price = 0
    /\ steps = <<>>
    /\ listings = <<>>
    /\ listing_ids = {}
    /\ pms = ""
    /\ selected = <<>>
    /\ aggregate = "none"
    /\ price_changes = <<>>

NextRequest ==
    \/ Start
    \/ GetListings
    \/ BatchUpdateStep(RunLists)
    \/ UpdatePricesStep(RunLists)
    \/ UpdateStep(RunLists)
    \/ AdjustStep(RunLists)
    \/ Finish

SpecRequest == InitRequest /\ [][NextRequest]_vars

-----------------------------------------------------------------------------
(* Failures before the first listing: C21, C22, C30 *)

ListingsFetchFailed == \E a \in 1..Len(calls) : calls[a] = ListingsCall(FALSE)

\* the reports of a failure before the loop: error rows or echoes without a
\* listing, and the error answer of the run as a whole
RunReports ==
    Cardinality({a \in 1..Len(results) : results[a] = RunError})
        + (IF aggregate = "error" THEN 1 ELSE 0)

NothingProcessed ==
    /\ cur = 0
    /\ \A a \in 1..Len(calls) : calls[a].op \notin {"fetch", "submit"}
    /\ \A a \in 1..Len(results) : results[a].id = 0
    /\ dry_run_summary = <<>>
    /\ submitted = <<>>

C22_MissingKeyIsFatal ==
    ~request.api_key =>
        /\ calls = <<>>
        /\ NothingProcessed
        /\ pc \in {"start", "done", "aborted"}
        /\ pc # "start" => RunReports = 1

C22_Witness ==
    /\ ~request.api_key
    /\ frontend = "pkg_dashboard"
    /\ pc = "aborted"
    /\ aggregate = "error"

\* the caller named the direction of the change
DirectionChosen ==
    IF frontend = "cli_update"
    THEN ~BadFlags(frontend, request)
    ELSE request.increase # "omitted"

Writes == {a \in 1..Len(calls) : calls[a].op = "submit"}

\* C30: update with both or neither of --increase / --decrease makes no API
\* call; a request that does not name the direction issues no write; a web
\* or dashboard request that does not name dry_run issues no write.
C30_NoWriteWithoutExplicitChoice ==
    /\ BadFlags(frontend, request) => calls = <<>>
    /\ ~DirectionChosen => Writes = {}
    /\ (HasPreview(frontend) /\ request.dry_run = "omitted") => Writes = {}

\* the part of C30 that the code keeps: update aborts on bad flags before
\* any API call, and the dashboards preview when dry run is left alone
C30_UpdateAbortsOnBadFlags ==
    /\ BadFlags(frontend, request) => (calls = <<>> /\ pc \in {"start", "aborted"})
    /\ (Batched(frontend) /\ request.dry_run = "omitted") => Writes = {}

-----------------------------------------------------------------------------
(* The API client and the HTTP status: C25 *)

MaxCalls == 2

HttpStatuses == {200, 201, 400, 401, 404, 429, 500}

\* the body of an error response: a JSON document, other text, nothing
Bodies == {"json", "text", "empty"}

\* requests.Response.ok
Ok(status) == status < 400

\* response.raise_for_status(): HTTPError for 4xx and 5xx
RaisesForStatus(status) == status >= 400 /\ status < 600

\* the kind of failure handle_api_error names for a status
handle_api_error(status) ==
    CASE status = 400 -> "invalid parameters"
      [] status = 401 -> "authentication failed"
      [] status = 404 -> "listing not found"
      [] status = 429 -> "rate limited"
      [] OTHER -> "generic"

\* src/streamlit_app.py carries its own client, which raises Exception
\* where the package client raises PriceLabsAPIError
Wrapped(fe) == IF fe = "dashboard" THEN "Exception" ELSE "PriceLabsAPIError"

Returned(op, status) ==
    [op |-> op, status |-> status, raised |-> FALSE, exception |-> "none", kind |-> "none"]

\* every message the client raises is the text of the underlying exception
\* behind a fixed prefix: no status is told apart from another
Raised(op, status, exception) ==
    [op |-> op, status |-> status, raised |-> TRUE, exception |-> exception,
     kind |-> "generic"]

\* get_listings: raise_for_status outside any try
GetListingsOutcome(fe, status) ==
    IF RaisesForStatus(status)
    THEN Raised("listings", status, "HTTPError")
    ELSE Returned("listings", status)

\* get_listing_overrides: RequestException is wrapped
GetListingOverridesOutcome(fe, status) ==
    IF RaisesForStatus(status)
    THEN Raised("fetch", status, Wrapped(fe))
    ELSE Returned("fetch", status)

\* update_listing_overrides: an error response with a body is decoded for
\* the log before raise_for_status.  Decoding other text than JSON raises a
\* JSONDecodeError, which is a RequestException from requests 2.27 on and a
\* plain ValueError before (setup.py asks for requests>=2.25.0).
UpdateListingOverridesOutcome(fe, status, body, oldRequests) ==
    IF ~Ok(status) /\ body = "text" /\ oldRequests
    THEN Raised("submit", status, "ValueError")
    ELSE IF RaisesForStatus(status) \/ (~Ok(status) /\ body = "text")
    THEN Raised("submit", status, Wrapped(fe))
    ELSE Returned("submit", status)

CallGetListings ==
    /\ pc = "http"
    /\ Len(calls) < MaxCalls
    /\ \E status \in HttpStatuses :
          calls' = Append(calls, GetListingsOutcome(frontend, status))
    /\ UNCHANGED <<frontend, increase, dry_run, start, batch_size, total, pc, i, j, cur,
                   retrieved, submitted, results, dry_run_summary, pricevars, selvars,
                   price_changes, request>>

CallGetListingOverrides ==
    /\ pc = "http"
    /\ Len(calls) < MaxCalls
    /\ \E status \in HttpStatuses :
          calls' = Append(calls, GetListingOverridesOutcome(frontend, status))
    /\ UNCHANGED <<frontend, increase, dry_run, start, batch_size, total, pc, i, j, cur,
                   retrieved, submitted, results, dry_run_summary, pricevars, selvars,
                   price_changes, request>>

CallUpdateListingOverrides ==
    /\ pc = "http"
    /\ Len(calls) < MaxCalls
    /\ \E status \in HttpStatuses, body \in Bodies, oldRequests \in BOOLEAN :
          calls' = Append(calls,
                          UpdateListingOverridesOutcome(frontend, status, body, oldRequests))
    /\ UNCHANGED <<frontend, increase, dry_run, start, batch_size, total, pc, i, j, cur,
                   retrieved, submitted, results, dry_run_summary, pricevars, selvars,
                   price_changes, request>>

InitHttp ==
    /\ frontend \in FrontEnds
    /\ increase = FALSE
    /\ dry_run = FALSE
    /\ start = NoStart
    /\ batch_size = 1
    /\ total = 0
    /\ pc = "http"
    /\ i = 0
    /\ j = 0
    /\ cur = 0
    /\ retrieved = <<>>
    /\ submitted = <<>>
    /\ calls = <<>>
    /\ results = <<>>
    /\ dry_run_summary = <<>>
    /\ price = 0
    /\ steps = <<>>
    /\ listings = <<>>
    /\ listing_ids = {}
    /\ pms = ""
    /\ selected = <<>>
    /\ aggregate = "none"
    /\ price_changes = <<>>
    /\ request = NoRequest

NextHttp ==
    \/ CallGetListings
    \/ CallGetListingOverrides
    \/ CallUpdateListingOverrides

SpecHttp == InitHttp /\ [][NextHttp]_vars

\* C25: a call of the package client answered with a status that is not
\* 2xx ends in a raised PriceLabsAPIError that names the kind of failure
\* handle_api_error gives the status: invalid parameters for 400,
\* authentication failed for 401, listing not found for 404, rate limited
\* for 429, generic otherwise.
C25_SurfacedByStatusKind ==
    \A a \in 1..Len(calls) :
        (frontend # "dashboard" /\ ~Ok(calls[a].status)) =>
            /\ calls[a].raised
            /\ calls[a].exception = "PriceLabsAPIError"
            /\ calls[a].kind = handle_api_error(calls[a].status)

\* the part of C25 that the code keeps: no 4xx or 5xx answer ends in a
\* normal return, and an override fetch raises the client's own exception
C25_ErrorStatusNeverReturns ==
    \A a \in 1..Len(calls) :
        ~Ok(calls[a].status) =>
            /\ calls[a].raised
            /\ calls[a].op = "fetch" => calls[a].exception = Wrapped(frontend)

-----------------------------------------------------------------------------
(* The pms parameter of override requests: C26 *)

\* the pms key of a listing record: a PMS name, or no such key
PmsTags == PmsNames \cup {"absent"}

\* the accounts of the model: at most MaxFetched listings, the k-th with id k
TaggedAccounts ==
    {[k \in 1..Len(s) |-> [id |-> k, pms |-> s[k]]] : s \in SeqsUpTo(PmsTags, MaxFetched)}

\* the pms argument a front-end passes to the client for a listing:
\* listing.get('pms') in batch_update and update_prices,
\* listing.get('pms', 'N/A') in update, no argument (pms=None) in
\* process_listing_adjustments
PmsArgument(fe, l) ==
    IF IsAdjust(fe) THEN "None"
    ELSE IF l.pms # "absent" THEN l.pms
    ELSE IF fe = "cli_update" THEN "N/A"
    ELSE "None"

\* the client: `if pms: params['pms'] = pms`
PmsParam(arg) == IF arg = "None" THEN "omitted" ELSE arg

ScopedCall(op, id, p) == [op |-> op, id |-> id, ok |-> TRUE, pms |-> p]

\* overrides are fetched for the next listing
FetchScoped ==
    /\ pc = "pms"
    /\ i < Len(listings)
    /\ j = 0
    /\ cur' = listings[i + 1].id
    /\ calls' = Append(calls, ScopedCall("fetch", listings[i + 1].id,
                                         PmsParam(PmsArgument(frontend, listings[i + 1]))))
    /\ IF dry_run THEN i' = i + 1 /\ j' = 0 ELSE i' = i /\ j' = 1
    /\ UNCHANGED <<frontend, increase, dry_run, start, batch_size, total, pc, retrieved,
                   submitted, results, dry_run_summary, pricevars, selvars, price_changes,
                   request>>

\* the adjusted overrides of the listing are submitted
SubmitScoped ==
    /\ pc = "pms"
    /\ i < Len(listings)
    /\ j = 1
    /\ calls' = Append(calls, ScopedCall("submit", listings[i + 1].id,
                                         PmsParam(PmsArgument(frontend, listings[i + 1]))))
    /\ i' = i + 1
    /\ j' = 0
    /\ UNCHANGED <<frontend, increase, dry_run, start, batch_size, total, pc, cur, retrieved,
                   submitted, results, dry_run_summary, pricevars, selvars, price_changes,
                   request>>

InitPms ==
    /\ frontend \in FrontEnds
    /\ increase \in BOOLEAN
    /\ dry_run \in (IF IsAdjust(frontend) THEN {FALSE} ELSE BOOLEAN)
    /\ start = NoStart
    /\ batch_size = 1
    /\ total = 0
    /\ pc = "pms"
    /\ i = 0
    /\ j = 0
    /\ cur = 0
    /\ retrieved = <<>>
    /\ submitted = <<>>
    /\ calls = <<>>
    /\ results = <<>>
    /\ dry_run_summary = <<>>
    /\ price = 0
    /\ steps = <<>>
    /\ listings \in TaggedAccounts
    /\ listing_ids = {}
    /\ pms = ""
    /\ selected = <<>>
    /\ aggregate = "none"
    /\ price_changes = <<>>
    /\ request = NoRequest

NextPms ==
    \/ FetchScoped
    \/ SubmitScoped

SpecPms == InitPms /\ [][NextPms]_vars

\* the pms tag of the listing with the given id
TagOf(id) == listings[id].pms

\* C26: an override fetch or submit carries the pms parameter exactly when
\* the listing record carries a pms tag, the parameter is then that tag,
\* and 'N/A' is never sent.
C26_PmsSentIffKnown ==
    \A a \in 1..Len(calls) :
        /\ calls[a].pms # "N/A"
        /\ frontend # "cli_adjust_one" =>
              calls[a].pms = (IF TagOf(calls[a].id) = "absent" THEN "omitted"
                              ELSE TagOf(calls[a].id))

\* the part of C26 that the code keeps: batch_update and update_prices
\* scope every request by the listing's tag and by nothing else
C26_DashboardsScopeByKnownPms ==
    \A a \in 1..Len(calls) :
        HasPreview(frontend) =>
            calls[a].pms = (IF TagOf(calls[a].id) = "absent" THEN "omitted"
                            ELSE TagOf(calls[a].id))

====
